---- MODULE Spec2Model ----
(***************************************************************************)
(* goircd: the daemon arbiter (Processor), the registration workflow       *)
(* (ClientRegister), JOIN handling (HandlerJoin, RoomRegister) and the     *)
(* room actors they feed.  Strings are sequences of one-character strings  *)
(* so that the case folding, trimming and splitting the code performs are  *)
(* computed, not assumed.                                                  *)
(***************************************************************************)
EXTENDS Integers, Sequences, FiniteSets, TLC

(***************************************************************************)
(* Go's strings package, as far as the daemon uses it.                     *)
(***************************************************************************)
LowerAlpha == <<"a","b","c","d","e","f","g","h","i","j","k","l","m",
                "n","o","p","q","r","s","t","u","v","w","x","y","z">>
UpperAlpha == <<"A","B","C","D","E","F","G","H","I","J","K","L","M",
                "N","O","P","Q","R","S","T","U","V","W","X","Y","Z">>
Digits == {"0","1","2","3","4","5","6","7","8","9"}

Range(s) == {s[i] : i \in 1..Len(s)}

AlphaIndex(alpha, ch) ==
    IF \E i \in 1..26 : alpha[i] = ch
    THEN CHOOSE i \in 1..26 : alpha[i] = ch
    ELSE 0

ToLowerCh(ch) ==
    IF AlphaIndex(UpperAlpha, ch) # 0 THEN LowerAlpha[AlphaIndex(UpperAlpha, ch)] ELSE ch

ToUpperCh(ch) ==
    IF AlphaIndex(LowerAlpha, ch) # 0 THEN UpperAlpha[AlphaIndex(LowerAlpha, ch)] ELSE ch

\* strings.ToLower
ToLower(s) == [i \in 1..Len(s) |-> ToLowerCh(s[i])]

\* strings.ToUpper
ToUpper(s) == [i \in 1..Len(s) |-> ToUpperCh(s[i])]

\* strings.Index for a one-character separator; 0 when absent
IndexCh(s, ch) ==
    IF \E i \in 1..Len(s) : s[i] = ch
    THEN CHOOSE i \in 1..Len(s) : s[i] = ch /\ \A j \in 1..(i-1) : s[j] # ch
    ELSE 0

\* strings.SplitN(s, ch, n) for n >= 1
RECURSIVE SplitN(_, _, _)
SplitN(s, ch, n) ==
    IF n <= 1 \/ IndexCh(s, ch) = 0
    THEN <<s>>
    ELSE <<SubSeq(s, 1, IndexCh(s, ch) - 1)>>
         \o SplitN(SubSeq(s, IndexCh(s, ch) + 1, Len(s)), ch, n - 1)

\* strings.Split(s, ch): every separator splits
Split(s, ch) == SplitN(s, ch, Len(s) + 1)

\* strings.TrimPrefix(s, ":")
TrimPrefixColon(s) == IF Len(s) > 0 /\ s[1] = ":" THEN Tail(s) ELSE s

\* strings.TrimLeft(s, ":")
RECURSIVE TrimLeftColon(_)
TrimLeftColon(s) == IF Len(s) > 0 /\ s[1] = ":" THEN TrimLeftColon(Tail(s)) ELSE s

\* strings.Join(words, " ")
RECURSIVE JoinSp(_)
JoinSp(words) ==
    IF Len(words) = 0 THEN <<>>
    ELSE IF Len(words) = 1 THEN words[1]
    ELSE words[1] \o <<" ">> \o JoinSp(Tail(words))

\* a nil *string: a value no string of characters equals
Nil == <<"<nil>">>

\* RENickname = ^[a-zA-Z0-9-]{1,24}$
NickMaxLen == 24

\* the expression with one more character allowed
RENicknameLonger(s) ==
    /\ Len(s) >= 1
    /\ Len(s) <= NickMaxLen + 1
    /\ \A i \in 1..Len(s) :
          \/ AlphaIndex(LowerAlpha, s[i]) # 0
          \/ AlphaIndex(UpperAlpha, s[i]) # 0
          \/ s[i] \in Digits
          \/ s[i] = "-"

RENickname(s) ==
    /\ Len(s) >= 1
    /\ Len(s) <= NickMaxLen
    /\ \A i \in 1..Len(s) :
          \/ AlphaIndex(LowerAlpha, s[i]) # 0
          \/ AlphaIndex(UpperAlpha, s[i]) # 0
          \/ s[i] \in Digits
          \/ s[i] = "-"

\* RoomNameValid: ^#[^\s,]+$
RoomNameValid(s) ==
    /\ Len(s) >= 2
    /\ s[1] = "#"
    /\ \A i \in 2..Len(s) : s[i] \notin {" ", ","}

(***************************************************************************)
(* Words of the protocol and the inputs of the model.                      *)
(***************************************************************************)
W_PASS == <<"P","A","S","S">>
W_NICK == <<"N","I","C","K">>
W_USER == <<"U","S","E","R">>
W_QUIT == <<"Q","U","I","T">>
W_AWAY == <<"A","W","A","Y">>
W_JOIN == <<"J","O","I","N">>
W_LIST == <<"L","I","S","T">>
W_LUSERS == <<"L","U","S","E","R","S">>
W_MODE == <<"M","O","D","E">>
W_MOTD == <<"M","O","T","D">>
W_PART == <<"P","A","R","T">>
W_PING == <<"P","I","N","G">>
W_PONG == <<"P","O","N","G">>
W_NOTICE == <<"N","O","T","I","C","E">>
W_PRIVMSG == <<"P","R","I","V","M","S","G">>
W_TOPIC == <<"T","O","P","I","C">>
W_WHO == <<"W","H","O">>
W_WHOIS == <<"W","H","O","I","S">>
W_ISON == <<"I","S","O","N">>
W_VERSION == <<"V","E","R","S","I","O","N">>

Star == <<"*">>
Empty == <<>>
Hostname == <<"l","o","c","a","l","h","o","s","t">>

\* the peer address of connection c, as Client.String() prints it
Host(c) == <<"h", ToString(c)>>

VARIABLES
    cfg,         \* the flags: statedir, passwords, motd (fixed after startup)
    now,         \* wall clock, seconds
    conn,        \* per connection: "none", "accepted", "open", "closed", "gone"
    cl,          \* per connection: the Client's fields
    clients,     \* the client registry (map[*Client]struct{})
    rooms,       \* the room registry: rooms / roomSinks, as the set of Room objects
    rm,          \* every Room object ever made: fields, sink, actor
    created,     \* number of Room objects made so far
    roomsGroup,  \* the sync.WaitGroup counter
    finished,    \* TRUE once close(finished) ran
    arb,         \* the arbiter's position inside Processor
    last,        \* what the latest step was (history)
    sent,        \* the lines the latest step wrote (history)
    forwarded    \* per Room: the events the arbiter undertook to send it and the
                 \* actor has not handled, oldest first (history)

vars == <<cfg, now, conn, cl, clients, rooms, rm, created, roomsGroup, finished,
          arb, last, sent, forwarded>>

\* A line written to connections: Reply* lines carry the server prefix,
\* Msg lines the prefix the caller built (Nil for the bare PING).
Line(to, prefix, code, params) ==
    [to |-> to, prefix |-> prefix, code |-> code, params |-> params]

\* Client.Reply / ReplyParts
ReplyParts(c, code, params) == Line({c}, Hostname, code, params)

\* Client.ReplyNicknamed: the code, the client's nickname, the arguments
ReplyNicknamed(c, rec, code, params) == Line({c}, Hostname, code, <<rec.nickname>> \o params)

\* Client.ReplyNotEnoughParameters
ReplyNotEnoughParameters(c, rec, cmd) == ReplyNicknamed(c, rec, "461", <<cmd>>)

\* Client.ReplyNoChannel
ReplyNoChannel(c, rec, name) == ReplyNicknamed(c, rec, "403", <<name>>)

\* Client.ReplyNoNickChan
ReplyNoNickChan(c, rec, name) == ReplyNicknamed(c, rec, "401", <<name>>)

\* Client.String(): nick!user@host
Prefix(c, rec) == rec.nickname \o <<"!">> \o rec.username \o <<"@">> \o Host(c)

\* NewClient: nickname "*", nothing else set, both timestamps the accept time
NewClient(t) ==
    [nickname |-> Star, username |-> Empty, realname |-> Empty, password |-> Nil,
     away |-> Nil, registered |-> FALSE, recvTimestamp |-> t, sendTimestamp |-> t]

\* ClientEvent{client, eventType, text}; cause is history: the command that made it
Event(c, type, text, cause) ==
    [client |-> c, eventType |-> type, text |-> text, cause |-> cause]

NoEvent == Event(0, "None", Empty, "none")

\* NewRoom: empty topic, empty key, no members
NewRoom(name) ==
    [name |-> name, topic |-> Empty, key |-> Empty, members |-> {},
     inbox |-> NoEvent, st |-> "run"]

NoRoom == [name |-> Empty, topic |-> Empty, key |-> Empty, members |-> {},
           inbox |-> NoEvent, st |-> "unborn"]

\* a Room whose actor has returned: nothing reads it any more
Gone(name) == [NoRoom EXCEPT !.st = "done", !.name = name]

ArbIdle == [ev |-> "idle", client |-> 0, todo |-> <<>>, touch |-> FALSE, t |-> 0]

(***************************************************************************)
(* SendLusers, SendMotd and the unregistered workflow, ClientRegister.     *)
(***************************************************************************)
\* the registry as the handler sees it: c's own fields are rec
Fields(c, rec, x) == IF x = c THEN rec ELSE cl[x]

\* SendLusers: 251 with the number of registered clients of the registry
SendLusers(c, rec) ==
    <<ReplyNicknamed(c, rec, "251",
        <<ToString(Cardinality({x \in clients : Fields(c, rec, x).registered}))>>)>>

\* strings.TrimSuffix(s, "\n")
TrimSuffixNl(s) == IF Len(s) > 0 /\ s[Len(s)] = "\n" THEN SubSeq(s, 1, Len(s) - 1) ELSE s

\* SendMotd: 422 when the file cannot be read, else 375, one 372 per line, 376
SendMotd(c, rec) ==
    IF cfg.motd = Nil
    THEN <<ReplyNicknamed(c, rec, "422", <<>>)>>
    ELSE <<ReplyNicknamed(c, rec, "375", <<>>)>>
         \o [i \in 1..Len(Split(TrimSuffixNl(cfg.motd), "\n")) |->
                ReplyNicknamed(c, rec, "372", <<Split(TrimSuffixNl(cfg.motd), "\n")[i]>>)]
         \o <<ReplyNicknamed(c, rec, "376", <<>>)>>

\* the loop over the entries of the passwords file (lines 364-373):
\* "ok" when no entry objects, "deny" at the first entry of this nickname with
\* another password, "panic" at an entry of this nickname without ':'
RECURSIVE PasswordScan(_, _, _)
PasswordScan(entries, nickname, password) ==
    IF Len(entries) = 0 THEN "ok"
    ELSE IF entries[1] = Empty THEN PasswordScan(Tail(entries), nickname, password)
    ELSE IF Split(entries[1], ":")[1] # nickname
         THEN PasswordScan(Tail(entries), nickname, password)
    ELSE IF Len(Split(entries[1], ":")) < 2 THEN "panic"
    ELSE IF Split(entries[1], ":")[2] # password THEN "deny"
    ELSE PasswordScan(Tail(entries), nickname, password)

\* what a handler of the arbiter yields: the client's new fields, the lines
\* written, whether the client is Closed, the sends still to make, whether
\* the loop body reaches the recvTimestamp update, whether the process died
Outcome(rec, out, close, todo, touch, fatal) ==
    [cl |-> rec, out |-> out, close |-> close, todo |-> todo, touch |-> touch,
     fatal |-> fatal]

\* the switch with a default case that answers 421
RegisterOtherUnknown(c, cmd) ==
    [ret |-> TRUE, cl |-> cl[c], out |-> <<ReplyNicknamed(c, cl[c], "421", <<cmd>>)>>]

\* the switch of ClientRegister has no default case (lines 311-351)
RegisterOther(c, cmd) == [ret |-> FALSE, cl |-> cl[c], out |-> <<>>]

\* lines 327-332 with the loop over the registry left out
NickInUseNever(n) == FALSE

\* lines 327-332: a client of the registry has this nickname
NickInUse(n) == \E x \in clients : cl[x].nickname = n

\* the switch of ClientRegister (lines 311-351): ret = the case returned early
RegisterSwitch(c, cmd, cols) ==
    CASE cmd = W_PASS ->
           IF Len(cols) = 1 \/ Len(cols[2]) < 1
           THEN [ret |-> TRUE, cl |-> cl[c],
                 out |-> <<ReplyNotEnoughParameters(c, cl[c], W_PASS)>>]
           ELSE [ret |-> FALSE, cl |-> [cl[c] EXCEPT !.password = cols[2]], out |-> <<>>]
      [] cmd = W_NICK ->
           IF Len(cols) = 1 \/ Len(cols[2]) < 1
           THEN [ret |-> TRUE, cl |-> cl[c], out |-> <<ReplyParts(c, "431", <<>>)>>]
           ELSE IF NickInUse(ToLower(TrimPrefixColon(cols[2])))
           THEN [ret |-> TRUE, cl |-> cl[c],
                 out |-> <<ReplyParts(c, "433", <<Star, ToLower(TrimPrefixColon(cols[2]))>>)>>]
           ELSE IF ~RENickname(ToLower(TrimPrefixColon(cols[2])))
           THEN [ret |-> TRUE, cl |-> cl[c],
                 out |-> <<ReplyParts(c, "432", <<Star, cols[2]>>)>>]
           ELSE [ret |-> FALSE,
                 cl |-> [cl[c] EXCEPT !.nickname = ToLower(TrimPrefixColon(cols[2]))],
                 out |-> <<>>]
      [] cmd = W_USER ->
           IF Len(cols) = 1
           THEN [ret |-> TRUE, cl |-> cl[c],
                 out |-> <<ReplyNotEnoughParameters(c, cl[c], W_USER)>>]
           ELSE IF Len(SplitN(cols[2], " ", 4)) < 4
           THEN [ret |-> TRUE, cl |-> cl[c],
                 out |-> <<ReplyNotEnoughParameters(c, cl[c], W_USER)>>]
           ELSE [ret |-> FALSE,
                 cl |-> [cl[c] EXCEPT !.username = SplitN(cols[2], " ", 4)[1],
                                      !.realname = TrimLeftColon(SplitN(cols[2], " ", 4)[4])],
                 out |-> <<>>]
      [] OTHER -> RegisterOther(c, cmd)

\* the welcome with SendMotd called before SendLusers
WelcomeMotdFirst(c, rec) ==
    Outcome([rec EXCEPT !.registered = TRUE],
            <<ReplyNicknamed(c, rec, "001", <<>>), ReplyNicknamed(c, rec, "002", <<>>),
              ReplyNicknamed(c, rec, "003", <<>>), ReplyNicknamed(c, rec, "004", <<>>)>>
            \o SendMotd(c, rec)
            \o SendLusers(c, [rec EXCEPT !.registered = TRUE]),
            FALSE, <<>>, FALSE, FALSE)

\* the welcome (lines 375-381): registered, 001-004, LUSERS, MOTD
Welcome(c, rec) ==
    Outcome([rec EXCEPT !.registered = TRUE],
            <<ReplyNicknamed(c, rec, "001", <<>>), ReplyNicknamed(c, rec, "002", <<>>),
              ReplyNicknamed(c, rec, "003", <<>>), ReplyNicknamed(c, rec, "004", <<>>)>>
            \o SendLusers(c, [rec EXCEPT !.registered = TRUE])
            \o SendMotd(c, rec),
            FALSE, <<>>, FALSE, FALSE)

\* line 354 with the test left out
NoPasswordIgnored(rec) == FALSE

\* line 354: the client sent no PASS
NoPassword(rec) == rec.password = Nil

\* 462 and Close (lines 355-357, 369-371)
MayNotRegister(c, rec) ==
    Outcome(rec, <<ReplyParts(c, "462", <<>>)>>, TRUE, <<>>, FALSE, FALSE)

\* the end of ClientRegister (lines 352-383), on the fields the switch left
RegisterCheck(c, rec) ==
    IF rec.nickname # Star /\ rec.username # Empty
    THEN IF cfg.passwords # Empty
         THEN IF NoPassword(rec) THEN MayNotRegister(c, rec)
              ELSE IF cfg.pwfile = Nil
                   THEN Outcome(rec, <<>>, FALSE, <<>>, FALSE, TRUE)
              ELSE IF PasswordScan(Split(cfg.pwfile, "\n"), rec.nickname, rec.password) = "panic"
                   THEN Outcome(rec, <<>>, FALSE, <<>>, FALSE, TRUE)
              ELSE IF PasswordScan(Split(cfg.pwfile, "\n"), rec.nickname, rec.password) = "deny"
                   THEN MayNotRegister(c, rec)
              ELSE Welcome(c, rec)
         ELSE Welcome(c, rec)
    ELSE Outcome(rec, <<>>, FALSE, <<>>, FALSE, FALSE)

\* ClientRegister
ClientRegister(c, cmd, cols) ==
    IF RegisterSwitch(c, cmd, cols).ret
    THEN Outcome(cl[c], RegisterSwitch(c, cmd, cols).out, FALSE, <<>>, FALSE, FALSE)
    ELSE RegisterCheck(c, RegisterSwitch(c, cmd, cols).cl)

(***************************************************************************)
(* The room registry and the commands of a registered client.              *)
(***************************************************************************)
\* rooms[name]: found, and the Room
Found(name) == \E r \in rooms : rm[r].name = name
RoomOf(name) == CHOOSE r \in rooms : rm[r].name = name

\* what the arbiter still has to do inside the handler it is in
SendItem(r, ev) == [op |-> "send", room |-> r, ev |-> ev]
ReplyItem(line) == [op |-> "reply", line |-> line]
JoinItem(c, name, key) == [op |-> "join", client |-> c, name |-> name, key |-> key]
WaitItem == [op |-> "wait"]

\* byte order of the characters the model uses, for sort.Strings
AsciiOrder == <<" ", "#", "*", "+", ",", "-", "0","1","2","3","4","5","6","7","8","9", ":">>
              \o UpperAlpha \o LowerAlpha
Rank(ch) == IF \E i \in 1..Len(AsciiOrder) : AsciiOrder[i] = ch
            THEN CHOOSE i \in 1..Len(AsciiOrder) : AsciiOrder[i] = ch
            ELSE 0

RECURSIVE StrLess(_, _)
StrLess(a, b) ==
    IF Len(b) = 0 THEN FALSE
    ELSE IF Len(a) = 0 THEN TRUE
    ELSE IF Rank(a[1]) # Rank(b[1]) THEN Rank(a[1]) < Rank(b[1])
    ELSE StrLess(Tail(a), Tail(b))

RECURSIVE Insert(_, _)
Insert(x, sorted) ==
    IF Len(sorted) = 0 THEN <<x>>
    ELSE IF StrLess(sorted[1], x) THEN <<sorted[1]>> \o Insert(x, Tail(sorted))
    ELSE <<x>> \o sorted

\* sort.Strings
RECURSIVE SortStrings(_)
SortStrings(ss) == IF Len(ss) = 0 THEN <<>> ELSE Insert(ss[1], SortStrings(Tail(ss)))

\* the elements of a set of strings, sorted
RECURSIVE SortedOf(_)
SortedOf(S) ==
    IF S = {} THEN <<>>
    ELSE LET x == CHOOSE y \in S : \A z \in S : ~StrLess(z, y)
         IN  <<x>> \o SortedOf(S \ {x})

\* every order in which a range over a Go map may visit the set S
RECURSIVE Orders(_)
Orders(S) ==
    IF S = {} THEN {<<>>}
    ELSE UNION {{<<x>> \o o : o \in Orders(S \ {x})} : x \in S}

\* an outcome that closes nothing and does not end the process
Done(rec, out, todo, touch) == Outcome(rec, out, FALSE, todo, touch, FALSE)

\* case "AWAY" (lines 511-519)
CmdAway(c, cols) ==
    IF Len(cols) = 1
    THEN {Done([cl[c] EXCEPT !.away = Nil], <<ReplyNicknamed(c, cl[c], "305", <<>>)>>,
               <<>>, FALSE)}
    ELSE {Done([cl[c] EXCEPT !.away = cols[2]], <<ReplyNicknamed(c, cl[c], "306", <<>>)>>,
               <<>>, TRUE)}

\* the key HandlerJoin pairs with the n-th room name (lines 415-420)
JoinKey(keys, n) == IF n <= Len(keys) /\ keys[n] # Empty THEN keys[n] ELSE Empty

\* HandlerJoin, its loop unrolled into one item per room name (lines 399-410)
HandlerJoin(c, arg) ==
    LET args == Split(arg, " ")
        rs == Split(args[1], ",")
        keys == IF Len(args) > 1 THEN Split(args[2], ",") ELSE <<>>
    IN  [n \in 1..Len(rs) |-> JoinItem(c, rs[n], JoinKey(keys, n))]

\* case "JOIN" (lines 520-525)
CmdJoin(c, cols) ==
    IF Len(cols) = 1 \/ Len(cols[2]) < 1
    THEN {Done(cl[c], <<ReplyNotEnoughParameters(c, cl[c], W_JOIN)>>, <<>>, FALSE)}
    ELSE {Done(cl[c], <<>>, HandlerJoin(c, cols[2]), TRUE)}

\* SendList (lines 278-303)
SendList(c, cols) ==
    LET rs == IF Len(cols) > 1 /\ cols[2] # Empty
              THEN SortStrings(Split(Split(cols[2], " ")[1], ","))
              ELSE SortedOf({rm[r].name : r \in rooms})
        hit == SelectSeq(rs, LAMBDA r : Found(r))
    IN  [i \in 1..Len(hit) |->
            ReplyNicknamed(c, cl[c], "322",
                <<hit[i], ToString(Cardinality(rm[RoomOf(hit[i])].members)),
                  rm[RoomOf(hit[i])].topic>>)]
        \o <<ReplyNicknamed(c, cl[c], "323", <<>>)>>

\* case "MODE" (lines 530-554)
CmdMode(c, cols) ==
    IF Len(cols) = 1 \/ Len(cols[2]) < 1
    THEN {Done(cl[c], <<ReplyNotEnoughParameters(c, cl[c], W_MODE)>>, <<>>, FALSE)}
    ELSE LET m == SplitN(cols[2], " ", 2) IN
         IF m[1] = cl[c].username
         THEN IF Len(m) = 1
              THEN {Done(cl[c], <<Line({c}, Nil, "221", <<cl[c].nickname, <<"+">> >>)>>,
                         <<>>, FALSE)}
              ELSE {Done(cl[c], <<ReplyNicknamed(c, cl[c], "501", <<>>)>>, <<>>, FALSE)}
         ELSE IF ~Found(m[1])
         THEN {Done(cl[c], <<ReplyNoChannel(c, cl[c], m[1])>>, <<>>, FALSE)}
         ELSE {Done(cl[c], <<>>,
                    <<SendItem(RoomOf(m[1]),
                        Event(c, "EventMode", IF Len(m) = 1 THEN Empty ELSE m[2], "MODE"))>>,
                    TRUE)}

\* case "PART" (lines 557-570)
CmdPart(c, cols) ==
    IF Len(cols) = 1 \/ Len(cols[2]) < 1
    THEN {Done(cl[c], <<ReplyNotEnoughParameters(c, cl[c], W_PART)>>, <<>>, FALSE)}
    ELSE LET rs == Split(Split(cols[2], " ")[1], ",") IN
         {Done(cl[c], <<>>,
               [i \in 1..Len(rs) |->
                   IF Found(rs[i])
                   THEN SendItem(RoomOf(rs[i]), Event(c, "EventDel", Empty, "PART"))
                   ELSE ReplyItem(ReplyNoChannel(c, cl[c], rs[i]))],
               TRUE)}

\* case "PING" (lines 571-576)
CmdPing(c, cols) ==
    IF Len(cols) = 1
    THEN {Done(cl[c], <<ReplyNicknamed(c, cl[c], "409", <<>>)>>, <<>>, FALSE)}
    ELSE {Done(cl[c], <<ReplyParts(c, "PONG", <<Hostname, cols[2]>>)>>, <<>>, TRUE)}

\* case "PONG" (lines 577-578)
CmdPong(c, cols) == {Done(cl[c], <<>>, <<>>, FALSE)}

\* the command word of a relayed message as the text written on the wire
Verb(cmd) == IF cmd = W_NOTICE THEN "NOTICE" ELSE "PRIVMSG"

\* line 590 without the lower-casing
PrivmsgTargetAsWritten(word) == word

\* line 590: the target is the first word, lower-cased
PrivmsgTarget(word) == ToLower(word)

\* case "NOTICE", "PRIVMSG" (lines 579-612): the range over clients stops at
\* the first client whose nickname is the target, in map order
CmdPrivmsg(c, cmd, cols) ==
    IF Len(cols) = 1
    THEN {Done(cl[c], <<ReplyNicknamed(c, cl[c], "411", <<cmd>>)>>, <<>>, FALSE)}
    ELSE LET m == SplitN(cols[2], " ", 2) IN
         IF Len(m) = 1
         THEN {Done(cl[c], <<ReplyNicknamed(c, cl[c], "412", <<>>)>>, <<>>, FALSE)}
         ELSE LET target == PrivmsgTarget(m[1]) IN
              IF \E x \in clients : cl[x].nickname = target
              THEN {Done(cl[c],
                         <<Line({x}, Prefix(c, cl[c]), Verb(cmd), <<cl[x].nickname, m[2]>>)>>
                         \o (IF cl[x].away # Nil
                             THEN <<ReplyNicknamed(c, cl[c], "301",
                                                   <<cl[x].nickname, cl[x].away>>)>>
                             ELSE <<>>),
                         <<>>, FALSE)
                    : x \in {y \in clients : cl[y].nickname = target}}
              ELSE IF Found(target)
              THEN {Done(cl[c], <<>>,
                         <<SendItem(RoomOf(target),
                             Event(c, "EventMsg", cmd \o <<" ">> \o TrimLeftColon(m[2]), cmd))>>,
                         TRUE)}
              ELSE {Done(cl[c], <<ReplyNoNickChan(c, cl[c], target)>>, <<>>, TRUE)}

\* case "TOPIC" (lines 613-630)
CmdTopic(c, cols) ==
    IF Len(cols) = 1
    THEN {Done(cl[c], <<ReplyNotEnoughParameters(c, cl[c], W_TOPIC)>>, <<>>, FALSE)}
    ELSE LET m == SplitN(cols[2], " ", 2) IN
         IF ~Found(m[1])
         THEN {Done(cl[c], <<ReplyNoChannel(c, cl[c], m[1])>>, <<>>, FALSE)}
         ELSE {Done(cl[c], <<>>,
                    <<SendItem(RoomOf(m[1]),
                        Event(c, "EventTopic", IF Len(m) > 1 THEN m[2] ELSE Empty, "TOPIC"))>>,
                    TRUE)}

\* case "WHO" (lines 631-641)
CmdWho(c, cols) ==
    IF Len(cols) = 1 \/ Len(cols[2]) < 1
    THEN {Done(cl[c], <<ReplyNotEnoughParameters(c, cl[c], W_WHO)>>, <<>>, FALSE)}
    ELSE IF Found(Split(cols[2], " ")[1])
    THEN {Done(cl[c], <<>>,
               <<SendItem(RoomOf(Split(cols[2], " ")[1]), Event(c, "EventWho", Empty, "WHO"))>>,
               TRUE)}
    ELSE {Done(cl[c], <<ReplyNoChannel(c, cl[c], Split(cols[2], " ")[1])>>, <<>>, TRUE)}

\* the elements of a finite set, in some order
RECURSIVE SetToSeq(_)
SetToSeq(S) ==
    IF S = {} THEN <<>>
    ELSE LET x == CHOOSE y \in S : TRUE IN <<x>> \o SetToSeq(S \ {x})

\* SendWhois for one nickname found as client x (lines 253-274)
WhoisFound(c, x, nickname) ==
    LET subs == SetToSeq({<<r, m>> \in rooms \X DOMAIN cl :
                             m \in rm[r].members /\ cl[m].nickname = nickname})
        subscriptions == SortStrings([i \in 1..Len(subs) |-> rm[subs[i][1]].name])
    IN  <<ReplyNicknamed(c, cl[c], "311",
              <<cl[x].nickname, cl[x].username, Host(x), Star, cl[x].realname>>),
          ReplyNicknamed(c, cl[c], "312", <<cl[x].nickname, Hostname, Hostname>>)>>
        \o (IF cl[x].away # Nil
            THEN <<ReplyNicknamed(c, cl[c], "301", <<cl[x].nickname, cl[x].away>>)>>
            ELSE <<>>)
        \o <<ReplyNicknamed(c, cl[c], "319", <<cl[x].nickname, JoinSp(subscriptions)>>),
             ReplyNicknamed(c, cl[c], "318", <<cl[x].nickname>>)>>

\* SendWhois (lines 237-276): for each nickname the first client the range
\* over the registry meets with that nickname, or 401
RECURSIVE SendWhois(_, _)
SendWhois(c, nicknames) ==
    IF Len(nicknames) = 0 THEN {<<>>}
    ELSE LET nickname == ToLower(nicknames[1])
             hits == {x \in clients : ToLower(cl[x].nickname) = nickname}
             heads == IF hits = {}
                      THEN {<<ReplyNoNickChan(c, cl[c], nickname)>>}
                      ELSE {WhoisFound(c, x, nickname) : x \in hits}
         IN  {h \o t : h \in heads, t \in SendWhois(c, Tail(nicknames))}

\* case "WHOIS" (lines 642-649)
CmdWhois(c, cols) ==
    IF Len(cols) = 1 \/ Len(cols[2]) < 1
    THEN {Done(cl[c], <<ReplyNotEnoughParameters(c, cl[c], W_WHOIS)>>, <<>>, FALSE)}
    ELSE LET w == Split(cols[2], " ") IN
         {Done(cl[c], o, <<>>, TRUE) : o \in SendWhois(c, Split(w[Len(w)], ","))}

\* case "ISON" (lines 650-665)
CmdIson(c, cols) ==
    IF Len(cols) = 1 \/ Len(cols[2]) < 1
    THEN {Done(cl[c], <<ReplyNotEnoughParameters(c, cl[c], W_ISON)>>, <<>>, FALSE)}
    ELSE LET nicksKnown == {cl[x].nickname : x \in clients}
             nicksExists == SelectSeq(Split(cols[2], " "), LAMBDA n : n \in nicksKnown)
         IN  {Done(cl[c], <<ReplyNicknamed(c, cl[c], "303", <<JoinSp(nicksExists)>>)>>,
                   <<>>, TRUE)}

\* the switch over the commands of a registered client (lines 510-676)
Registered(c, cmd, cols) ==
    CASE cmd = W_AWAY -> CmdAway(c, cols)
      [] cmd = W_JOIN -> CmdJoin(c, cols)
      [] cmd = W_LIST -> {Done(cl[c], SendList(c, cols), <<>>, TRUE)}
      [] cmd = W_LUSERS -> {Done(cl[c], SendLusers(c, cl[c]), <<>>, TRUE)}
      [] cmd = W_MODE -> CmdMode(c, cols)
      [] cmd = W_MOTD -> {Done(cl[c], SendMotd(c, cl[c]), <<>>, TRUE)}
      [] cmd = W_PART -> CmdPart(c, cols)
      [] cmd = W_PING -> CmdPing(c, cols)
      [] cmd = W_PONG -> CmdPong(c, cols)
      [] cmd \in {W_NOTICE, W_PRIVMSG} -> CmdPrivmsg(c, cmd, cols)
      [] cmd = W_TOPIC -> CmdTopic(c, cols)
      [] cmd = W_WHO -> CmdWho(c, cols)
      [] cmd = W_WHOIS -> CmdWhois(c, cols)
      [] cmd = W_ISON -> CmdIson(c, cols)
      [] cmd = W_VERSION -> {Done(cl[c], <<ReplyNicknamed(c, cl[c], "351", <<Hostname>>)>>,
                                  <<>>, TRUE)}
      [] OTHER -> {Done(cl[c], <<ReplyNicknamed(c, cl[c], "421", <<cmd>>)>>, <<>>, TRUE)}

\* the command of a line: cols[0] upper-cased (lines 496-497)
Cols(text) == SplitN(text, " ", 2)
CmdOf(text) == ToUpper(Cols(text)[1])

\* case EventMsg (lines 495-509, then the switch): QUIT closes, an
\* unregistered client goes to ClientRegister, both skip the timestamp update
OnMsg(c, text) ==
    IF CmdOf(text) = W_QUIT
    THEN {Outcome(cl[c], <<>>, TRUE, <<>>, FALSE, FALSE)}
    ELSE IF ~cl[c].registered
    THEN {ClientRegister(c, CmdOf(text), Cols(text))}
    ELSE Registered(c, CmdOf(text), Cols(text))

(***************************************************************************)
(* Startup (Run) and the listener.                                         *)
(***************************************************************************)
\* bound on the Room objects made in one run (RoomRegister calls)
MaxRooms == 2

\* Run, lines 96-114: with a state directory every saved room is registered
\* and given the saved topic and key
LoadedRoom(state) == [NewRoom(state.name) EXCEPT !.topic = state.topic, !.key = state.key]

\* the state Run leaves when it calls daemon.Processor
Startup(cfgs, conns) ==
    /\ cfg \in cfgs
    /\ now = 0
    /\ conn = [c \in conns |-> "none"]
    /\ cl = [c \in conns |-> NewClient(0)]
    /\ clients = {}
    /\ rooms = IF cfg.statedir THEN 1..Len(cfg.states) ELSE {}
    /\ rm = [r \in 1..MaxRooms |->
                IF cfg.statedir /\ r <= Len(cfg.states)
                THEN LoadedRoom(cfg.states[r]) ELSE NoRoom]
    /\ created = IF cfg.statedir THEN Len(cfg.states) ELSE 0
    /\ roomsGroup = IF cfg.statedir THEN Len(cfg.states) ELSE 0
    /\ finished = FALSE
    /\ arb = ArbIdle
    /\ last = [actor |-> "none"]
    /\ sent = <<>>
    /\ forwarded = [r \in 1..MaxRooms |-> <<>>]

\* listenerLoop: a connection is accepted, its Client made, its reader started
Accept(c) ==
    /\ conn[c] = "none"
    /\ conn' = [conn EXCEPT ![c] = "accepted"]
    /\ cl' = [cl EXCEPT ![c] = NewClient(now)]
    /\ last' = [actor |-> "listener", client |-> c]
    /\ sent' = <<>>
    /\ UNCHANGED <<cfg, now, clients, rooms, rm, created, roomsGroup, finished, arb, forwarded>>

(***************************************************************************)
(* Processor: the arbiter's loop.                                          *)
(***************************************************************************)
\* line 678-680: the loop body's last statement
Touch(rec, touch, t) == IF touch THEN [rec EXCEPT !.recvTimestamp = t] ELSE rec

\* the arbiter's position after a handler step that leaves todo to do
Position(ev, c, todo, touch, t) ==
    IF todo = <<>> THEN ArbIdle
    ELSE [ev |-> ev, client |-> c, todo |-> todo, touch |-> touch, t |-> t]

\* the events of the sends of a todo list that go to room r, in order
RECURSIVE SendsFor(_, _)
SendsFor(todo, r) ==
    IF todo = <<>> THEN <<>>
    ELSE IF Head(todo).op = "send" /\ Head(todo).room = r
         THEN <<Head(todo).ev>> \o SendsFor(Tail(todo), r)
         ELSE SendsFor(Tail(todo), r)

\* forwarded, once the arbiter has undertaken the sends of todo
Undertaken(todo) == [r \in DOMAIN forwarded |-> forwarded[r] \o SendsFor(todo, r)]

\* case EventNew (lines 488-489)
OnNew(c) ==
    /\ arb.ev = "idle"
    /\ conn[c] = "accepted"
    /\ clients' = clients \cup {c}
    /\ conn' = [conn EXCEPT ![c] = "open"]
    /\ cl' = [cl EXCEPT ![c] = Touch(cl[c], TRUE, now)]
    /\ last' = [actor |-> "arbiter", ev |-> "EventNew", client |-> c]
    /\ sent' = <<>>
    /\ UNCHANGED <<cfg, now, rooms, rm, created, roomsGroup, finished, arb, forwarded>>

\* number of rooms the JOINs of a todo list can still create
Joins(todo) == Cardinality({i \in 1..Len(todo) : todo[i].op = "join"})

\* case EventMsg: one line of an open connection
OnMsgEvent(c, text) ==
    /\ arb.ev = "idle"
    /\ conn[c] = "open"
    /\ \E o \in OnMsg(c, text) :
          /\ created + Joins(o.todo) <= MaxRooms
          /\ cl' = [cl EXCEPT ![c] = Touch(o.cl, o.touch /\ o.todo = <<>>, now)]
          /\ conn' = IF o.close THEN [conn EXCEPT ![c] = "closed"] ELSE conn
          /\ arb' = IF o.fatal THEN [ArbIdle EXCEPT !.ev = "dead"]
                    ELSE Position("EventMsg", c, o.todo, o.touch, now)
          /\ sent' = o.out
          /\ forwarded' = Undertaken(o.todo)
          /\ last' = [actor |-> "arbiter", ev |-> "EventMsg", client |-> c,
                      cmd |-> CmdOf(text), text |-> text, reg |-> cl[c].registered]
    /\ UNCHANGED <<cfg, now, clients, rooms, rm, created, roomsGroup, finished>>

\* lines 492-494 with the loop left after its first round
DelTargetsFirst == IF rooms = {} THEN {} ELSE {CHOOSE r \in rooms : TRUE}

\* lines 492-494: the sinks the EventDel is sent on
DelTargets == rooms

\* case EventDel (lines 490-494): the reader saw its socket closed or failing
OnDel(c) ==
    /\ arb.ev = "idle"
    /\ conn[c] \in {"open", "closed"}
    /\ clients' = clients \ {c}
    /\ conn' = [conn EXCEPT ![c] = "gone"]
    /\ \E order \in Orders(DelTargets) :
          LET todo == [i \in 1..Len(order) |->
                          SendItem(order[i], Event(c, "EventDel", Empty, "EventDel"))]
          IN  /\ arb' = Position("EventDel", c, todo, TRUE, now)
              /\ cl' = [cl EXCEPT ![c] = Touch(cl[c], todo = <<>>, now)]
              /\ forwarded' = Undertaken(todo)
    /\ last' = [actor |-> "arbiter", ev |-> "EventDel", client |-> c, pre |-> rooms]
    /\ sent' = <<>>
    /\ UNCHANGED <<cfg, now, rooms, rm, created, roomsGroup, finished>>

\* PingTimeout and PingThreshold, seconds (lines 196, 198)
PingTimeout == 180
PingThreshold == 90

\* lines 458-471 with the test of line 465 left out: everyone idle is pinged
TickVerdictPingAll(rec, t) ==
    IF rec.recvTimestamp + PingTimeout < t THEN "timeout"
    ELSE IF rec.sendTimestamp + PingThreshold < t THEN "ping"
    ELSE "keep"

\* what the tick does with one client of the registry (lines 458-471)
TickVerdict(rec, t) ==
    IF rec.recvTimestamp + PingTimeout < t THEN "timeout"
    ELSE IF rec.sendTimestamp + PingThreshold < t
         THEN IF rec.registered THEN "ping" ELSE "drop"
    ELSE "keep"

\* line 474 without the test of the state directory
EmptiedAnyway(r) == Cardinality(rm[r].members) = 0

\* line 474: the tick removes this room
Emptied(r) == ~cfg.statedir /\ Cardinality(rm[r].members) = 0

\* case EventTick (lines 456-480)
OnTick ==
    /\ arb.ev = "idle"
    /\ LET pinged == {c \in clients : TickVerdict(cl[c], now) = "ping"}
           closed == {c \in clients : TickVerdict(cl[c], now) \in {"timeout", "drop"}}
           dead == {r \in rooms : Emptied(r)}
       IN  /\ cl' = [c \in DOMAIN cl |->
                        IF c \in pinged THEN [cl[c] EXCEPT !.sendTimestamp = now] ELSE cl[c]]
           /\ conn' = [c \in DOMAIN conn |-> IF c \in closed THEN "closed" ELSE conn[c]]
           /\ rooms' = rooms \ dead
           /\ rm' = [r \in DOMAIN rm |-> IF r \in dead THEN [rm[r] EXCEPT !.st = "closed"]
                                          ELSE rm[r]]
           /\ sent' = IF pinged = {} THEN <<>>
                      ELSE <<Line(pinged, Nil, "PING", <<Hostname>>)>>
           /\ last' = [actor |-> "arbiter", ev |-> "EventTick", pre |-> rooms,
                       was |-> cl, closed |-> closed, registry |-> clients]
    /\ UNCHANGED <<cfg, now, clients, created, roomsGroup, finished, arb, forwarded>>

\* case EventTerm (lines 481-487): the sends, then roomsGroup.Wait()
OnTerm ==
    /\ arb.ev = "idle"
    /\ \E order \in Orders(rooms) :
          LET todo == [i \in 1..Len(order) |->
                          SendItem(order[i], Event(0, "EventTerm", Empty, "EventTerm"))]
          IN  /\ arb' = [ev |-> "EventTerm", client |-> 0, todo |-> todo \o <<WaitItem>>,
                         touch |-> FALSE, t |-> now]
              /\ forwarded' = Undertaken(todo)
    /\ last' = [actor |-> "arbiter", ev |-> "EventTerm", pre |-> rooms]
    /\ sent' = <<>>
    /\ UNCHANGED <<cfg, now, conn, cl, clients, rooms, rm, created, roomsGroup, finished>>

\* line 423 with the test for a key the room has left out of the comparison:
\* a JOIN giving no key is let in
KeyDeniedUnlessNone(roomKey, key) == roomKey # Empty /\ roomKey # key /\ key # Empty

\* line 423: the JOIN is denied
KeyDenied(roomKey, key) == roomKey # Empty /\ roomKey # key

\* RoomRegister (lines 388-396) and lines 432-436: the new Room, its key set
\* when the JOIN gave one, the joining client's EventNew in its sink
RoomRegister(name, key, ev) ==
    [NewRoom(name) EXCEPT !.key = IF key # Empty THEN key ELSE Empty, !.inbox = ev]

\* a send that does not wait for the actor to take the event before
SinkAlwaysFree(r) == TRUE

\* roomSink <- event (lines 426, 437, 483, 493): the sink is unbuffered, the
\* send waits until the actor has taken the event before
SinkFree(r) == rm[r].inbox = NoEvent

\* the arbiter after the head of todo is done
Advance(rest) == IF rest = <<>> THEN ArbIdle ELSE [arb EXCEPT !.todo = rest]
Touched(rest) ==
    IF rest = <<>> /\ arb.touch
    THEN [cl EXCEPT ![arb.client] = Touch(cl[arb.client], TRUE, arb.t)]
    ELSE cl

\* one step of the handler the arbiter is in: a reply, a send on a room's
\* sink (which waits for the actor to receive), one round of HandlerJoin's
\* loop (lines 410-441), or roomsGroup.Wait() and close(finished)
ArbStep ==
    /\ arb.ev \in {"EventMsg", "EventDel", "EventTerm"}
    /\ LET head == arb.todo[1]
           rest == Tail(arb.todo)
           c == arb.client
       IN
       CASE head.op = "reply" ->
              /\ sent' = <<head.line>>
              /\ arb' = Advance(rest)
              /\ cl' = Touched(rest)
              /\ last' = [actor |-> "arbiter", ev |-> "reply", client |-> c]
              /\ UNCHANGED <<rooms, rm, created, roomsGroup, finished, forwarded>>
         [] head.op = "send" ->
              /\ SinkFree(head.room)
              /\ rm' = [rm EXCEPT ![head.room].inbox = head.ev]
              /\ sent' = <<>>
              /\ arb' = Advance(rest)
              /\ cl' = Touched(rest)
              /\ last' = [actor |-> "arbiter", ev |-> "send", client |-> c,
                          room |-> head.room, type |-> head.ev.eventType]
              /\ UNCHANGED <<rooms, created, roomsGroup, finished, forwarded>>
         [] head.op = "join" ->
              IF ~RoomNameValid(head.name)
              THEN /\ sent' = <<ReplyNoChannel(c, cl[c], head.name)>>
                   /\ arb' = Advance(rest)
                   /\ cl' = Touched(rest)
                   /\ last' = [actor |-> "arbiter", ev |-> "join", client |-> c,
                               name |-> head.name, key |-> head.key, how |-> "invalid"]
                   /\ UNCHANGED <<rooms, rm, created, roomsGroup, finished, forwarded>>
              ELSE IF Found(head.name)
              THEN IF KeyDenied(rm[RoomOf(head.name)].key, head.key)
                   THEN /\ sent' = <<ReplyNicknamed(c, cl[c], "475", <<head.name>>)>>
                        /\ arb' = Advance(rest)
                        /\ cl' = Touched(rest)
                        /\ last' = [actor |-> "arbiter", ev |-> "join", client |-> c,
                                    name |-> head.name, key |-> head.key,
                                    how |-> "denied", room |-> RoomOf(head.name)]
                        /\ UNCHANGED <<rooms, rm, created, roomsGroup, finished, forwarded>>
                   ELSE /\ sent' = <<>>
                        /\ arb' = [arb EXCEPT !.todo =
                                      <<SendItem(RoomOf(head.name),
                                                 Event(c, "EventNew", Empty, "JOIN"))>> \o rest]
                        /\ last' = [actor |-> "arbiter", ev |-> "join", client |-> c,
                                    name |-> head.name, key |-> head.key,
                                    how |-> "admitted", room |-> RoomOf(head.name)]
                        /\ forwarded' = [forwarded EXCEPT ![RoomOf(head.name)] =
                                             Append(@, Event(c, "EventNew", Empty, "JOIN"))]
                        /\ UNCHANGED <<cl, rooms, rm, created, roomsGroup, finished>>
              ELSE /\ created < MaxRooms
                   /\ rm' = [rm EXCEPT ![created + 1] =
                                RoomRegister(head.name, head.key,
                                             Event(c, "EventNew", Empty, "JOIN"))]
                   /\ rooms' = rooms \cup {created + 1}
                   /\ created' = created + 1
                   /\ roomsGroup' = roomsGroup + 1
                   /\ sent' = <<>>
                   /\ arb' = Advance(rest)
                   /\ cl' = Touched(rest)
                   /\ last' = [actor |-> "arbiter", ev |-> "join", client |-> c,
                               name |-> head.name, key |-> head.key,
                               how |-> "created", room |-> created + 1]
                   /\ forwarded' = [forwarded EXCEPT ![created + 1] =
                                        <<Event(c, "EventNew", Empty, "JOIN")>>]
                   /\ UNCHANGED finished
         [] head.op = "wait" ->
              /\ roomsGroup = 0
              /\ finished' = TRUE
              /\ arb' = [ArbIdle EXCEPT !.ev = "returned"]
              /\ sent' = <<>>
              /\ last' = [actor |-> "arbiter", ev |-> "finished"]
              /\ UNCHANGED <<cl, rooms, rm, created, roomsGroup, forwarded>>
    /\ UNCHANGED <<cfg, now, conn, clients>>

(***************************************************************************)
(* The room actor, Room.Processor: one event of the sink at a time.        *)
(***************************************************************************)
\* Room.Broadcast: one line to each of the clients in to
Broadcast(to, prefix, code, params) ==
    IF to = {} THEN <<>> ELSE <<Line(to, prefix, code, params)>>

\* 332 with the topic, or 331 when there is none
SendTopic(c, room) ==
    IF room.topic = Empty
    THEN <<ReplyNicknamed(c, cl[c], "331", <<room.name>>)>>
    ELSE <<ReplyNicknamed(c, cl[c], "332", <<room.name, room.topic>>)>>

\* the nicknames of a member set, sorted, space separated
Names(members) == JoinSp(SortStrings(SetToSeq({cl[m].nickname : m \in members})))

\* the Room after the event, and the lines written
RoomResult(room, out) == [room |-> room, out |-> out]

\* EventNew: the client becomes a member, JOIN goes to all members, the
\* topic and the names to the client
RoomNew(room, c) ==
    LET joined == [room EXCEPT !.members = room.members \cup {c}] IN
    RoomResult(joined,
        Broadcast(joined.members, Prefix(c, cl[c]), "JOIN", <<room.name>>)
        \o SendTopic(c, room)
        \o <<ReplyNicknamed(c, cl[c], "353", <<room.name, Names(joined.members)>>),
             ReplyNicknamed(c, cl[c], "366", <<room.name>>)>>)

\* EventDel: a member is removed and PART goes to the remaining members
RoomDel(room, c) ==
    IF c \in room.members
    THEN RoomResult([room EXCEPT !.members = room.members \ {c}],
                    Broadcast(room.members \ {c}, Prefix(c, cl[c]), "PART", <<room.name>>))
    ELSE RoomResult(room, <<>>)

\* EventMsg: the line goes to every member but the sender
RoomMsg(room, c, text) ==
    RoomResult(room,
        Broadcast(room.members \ {c}, Prefix(c, cl[c]), Verb(SplitN(text, " ", 2)[1]),
                  <<room.name, SplitN(text, " ", 2)[2]>>))

\* EventTopic: report the topic, or set it and tell the members
RoomTopic(room, c, text) ==
    IF text = Empty
    THEN RoomResult(room, SendTopic(c, room))
    ELSE RoomResult([room EXCEPT !.topic = TrimPrefixColon(text)],
                    Broadcast(room.members, Prefix(c, cl[c]), "TOPIC",
                              <<room.name, TrimPrefixColon(text)>>))

\* EventMode: report the flags, +k key, -k, +b, or 472
RoomMode(room, c, text) ==
    LET w == Split(text, " ") IN
    IF text = Empty
    THEN RoomResult(room,
            <<ReplyNicknamed(c, cl[c], "324",
                  <<room.name, IF room.key = Empty THEN <<"+">> ELSE <<"+", "k">> >>),
              ReplyNicknamed(c, cl[c], "329", <<room.name, <<"0">> >>)>>)
    ELSE IF w[1] = <<"+", "k">> /\ Len(w) > 1
    THEN RoomResult([room EXCEPT !.key = w[2]], <<>>)
    ELSE IF w[1] = <<"-", "k">>
    THEN RoomResult([room EXCEPT !.key = Empty], <<>>)
    ELSE IF w[1] = <<"+", "b">>
    THEN RoomResult(room, <<ReplyNicknamed(c, cl[c], "368", <<room.name>>)>>)
    ELSE RoomResult(room, <<ReplyNicknamed(c, cl[c], "472", <<w[1]>>)>>)

\* EventWho: 352 for each member, then 315
RoomWho(room, c) ==
    RoomResult(room,
        [i \in 1..Cardinality(room.members) |->
            ReplyNicknamed(c, cl[c], "352",
                <<room.name, cl[SetToSeq(room.members)[i]].nickname>>)]
        \o <<ReplyNicknamed(c, cl[c], "315", <<room.name>>)>>)

\* the switch of Room.Processor
RoomHandle(room, ev) ==
    CASE ev.eventType = "EventNew" -> RoomNew(room, ev.client)
      [] ev.eventType = "EventDel" -> RoomDel(room, ev.client)
      [] ev.eventType = "EventMsg" -> RoomMsg(room, ev.client, ev.text)
      [] ev.eventType = "EventTopic" -> RoomTopic(room, ev.client, ev.text)
      [] ev.eventType = "EventMode" -> RoomMode(room, ev.client, ev.text)
      [] ev.eventType = "EventWho" -> RoomWho(room, ev.client)
      [] OTHER -> RoomResult(room, <<>>)

\* the actor of room r handles the event it received; on EventTerm it
\* calls roomsGroup.Done() and returns
RoomProcess(r) ==
    /\ rm[r].st \in {"run", "closed"}
    /\ rm[r].inbox # NoEvent
    /\ LET ev == rm[r].inbox
           res == RoomHandle(rm[r], ev)
       IN  /\ rm' = [rm EXCEPT ![r] =
                        IF ev.eventType = "EventTerm"
                        THEN Gone(rm[r].name)
                        ELSE [res.room EXCEPT !.inbox = NoEvent]]
           /\ roomsGroup' = IF ev.eventType = "EventTerm" THEN roomsGroup - 1
                            ELSE roomsGroup
           /\ sent' = IF ev.eventType = "EventTerm" THEN <<>> ELSE res.out
           /\ last' = [actor |-> "room", room |-> r, ev |-> ev.eventType,
                       client |-> ev.client, cause |-> ev.cause, text |-> ev.text,
                       was |-> rm[r].members]
    /\ forwarded' = [forwarded EXCEPT ![r] = IF @ = <<>> THEN @ ELSE Tail(@)]
    /\ UNCHANGED <<cfg, now, conn, cl, clients, rooms, created, finished, arb>>

\* the actor of a room whose sink the tick closed leaves its loop
RoomExit(r) ==
    /\ rm[r].st = "closed"
    /\ rm[r].inbox = NoEvent
    /\ rm' = [rm EXCEPT ![r] = Gone(rm[r].name)]
    /\ last' = [actor |-> "room", room |-> r, ev |-> "exit", was |-> rm[r].members]
    /\ sent' = <<>>
    /\ UNCHANGED <<cfg, now, conn, cl, clients, rooms, created, roomsGroup, finished, arb, forwarded>>

(***************************************************************************)
(* Time.                                                                   *)
(***************************************************************************)
\* bound on the wall clock, seconds
MaxTime == 270

\* the seconds the clock advances in one step: nine periods of the ticker
ClockStep == 90

\* d seconds pass
Clock(d) ==
    /\ d = ClockStep
    /\ now + d <= MaxTime
    /\ now' = now + d
    /\ last' = [actor |-> "clock"]
    /\ sent' = <<>>
    /\ UNCHANGED <<cfg, conn, cl, clients, rooms, rm, created, roomsGroup, finished, arb, forwarded>>

(***************************************************************************)
(* Inputs and specifications.                                              *)
(***************************************************************************)
NickA == <<"a">>
NickB == <<"B">>
User1 == JoinSp(<<W_USER, <<"u">>, <<"0">>, Star, <<":", "R">> >>)
RoomR == <<"#", "r">>
RoomS == <<"#", "s">>
Key1 == <<"k">>
Key2 == <<"x">>
PlusK == <<"+", "k">>
MinusK == <<"-", "k">>
Hi == <<":", "h", "i">>

\* no state directory, no passwords file, no MOTD file
Plain == [statedir |-> FALSE, states |-> <<>>, passwords |-> Empty, pwfile |-> Nil,
          motd |-> Nil]

\* a state directory holding room #r with topic "t" and key "k"
Stateful == [Plain EXCEPT !.statedir = TRUE,
                          !.states = <<[name |-> RoomR, topic |-> <<"t">>, key |-> Key1]>>]

\* every step of the program, the connections sending the lines given
Step(lines) ==
    \/ \E c \in DOMAIN conn : Accept(c)
    \/ \E c \in DOMAIN conn : OnNew(c)
    \/ \E c \in DOMAIN conn : \E text \in lines[c] : OnMsgEvent(c, text)
    \/ \E c \in DOMAIN conn : OnDel(c)
    \/ OnTick
    \/ OnTerm
    \/ ArbStep
    \/ \E r \in DOMAIN rm : RoomProcess(r)
    \/ \E r \in DOMAIN rm : RoomExit(r)

\* the lines each connection may send in the room scenarios
RoomLines ==
    <<{ JoinSp(<<W_NICK, NickA>>), User1,
        JoinSp(<<W_JOIN, RoomR>>), JoinSp(<<W_JOIN, RoomR, Key1>>),
        JoinSp(<<W_JOIN, RoomS>>), JoinSp(<<W_PART, RoomR>>) },
      { JoinSp(<<W_NICK, NickB>>), User1,
        JoinSp(<<W_JOIN, RoomR>>), JoinSp(<<W_JOIN, RoomR, Key1>>),
        JoinSp(<<W_JOIN, RoomR, Key2>>) }>>

\* a MOTD file of two lines
WithMotd == [Plain EXCEPT !.motd = <<"m", "\n", "n", "\n">>]

\* a passwords file with an entry for nickname a
Pass1 == <<"p">>
Pass2 == <<"q">>
WithPasswords ==
    [Plain EXCEPT !.passwords = <<"/", "p">>,
                  !.pwfile = NickA \o <<":">> \o Pass1 \o <<"\n">>]

\* the lines each connection may send in the registration scenarios
RegLines ==
    <<{ JoinSp(<<W_PASS, Pass1>>), JoinSp(<<W_PASS, Pass2>>),
        JoinSp(<<W_NICK, NickA>>), User1,
        JoinSp(<<W_JOIN, RoomR>>), W_QUIT },
      { JoinSp(<<W_PASS, Pass2>>), JoinSp(<<ToLower(W_NICK), NickB>>), User1,
        JoinSp(<<W_PRIVMSG, NickA, Hi>>), W_PING }>>

InitReg == Startup({Plain, WithMotd, WithPasswords}, {1, 2})

NextReg == Step(RegLines)

SpecReg == InitReg /\ [][NextReg]_vars

\* the lines each connection may send in the timeout scenarios
TickLines ==
    <<{ JoinSp(<<W_NICK, NickA>>), User1, W_PONG, JoinSp(<<W_PING, Key2>>),
        JoinSp(<<W_JOIN, RoomR>>) },
      { JoinSp(<<W_NICK, NickB>>) }>>

InitTick == Startup({Plain}, {1, 2})

\* the steps of the timeout scenarios: the server is not terminated
NextTick ==
    \/ \E c \in DOMAIN conn : Accept(c)
    \/ \E c \in DOMAIN conn : OnNew(c)
    \/ \E c \in DOMAIN conn : \E text \in TickLines[c] : OnMsgEvent(c, text)
    \/ \E c \in DOMAIN conn : OnDel(c)
    \/ OnTick
    \/ ArbStep
    \/ \E r \in DOMAIN rm : RoomProcess(r)
    \/ \E r \in DOMAIN rm : RoomExit(r)
    \/ Clock(ClockStep)

SpecTick == InitTick /\ [][NextTick]_vars

NickC == <<"c">>
Brb == <<":", "b", "r", "b">>

\* the lines each connection may send in the private message scenarios
MsgLines ==
    <<{ JoinSp(<<W_NICK, NickA>>), User1, JoinSp(<<W_AWAY, Brb>>), W_AWAY },
      { JoinSp(<<W_NICK, NickB>>), User1,
        JoinSp(<<W_PRIVMSG, ToUpper(NickA), Hi>>), JoinSp(<<W_PRIVMSG, NickA, Hi>>),
        JoinSp(<<W_PRIVMSG, RoomR, Hi>>) },
      { JoinSp(<<W_NICK, NickC>>), User1, JoinSp(<<W_JOIN, RoomR>>) }>>

InitMsg == Startup({Plain}, {1, 2, 3})

NextMsg == Step(MsgLines)

SpecMsg == InitMsg /\ [][NextMsg]_vars

\* a passwords file that cannot be read when a client completes NICK and USER
Unreadable == [Plain EXCEPT !.passwords = <<"/", "p">>]

\* a passwords file whose only entry, "a", has no ':' separator
Malformed == [Plain EXCEPT !.passwords = <<"/", "p">>, !.pwfile = NickA \o <<"\n">>]

\* the lines each connection may send in the passwords file scenarios
PwLines ==
    <<{ JoinSp(<<W_PASS, Pass1>>), JoinSp(<<W_NICK, NickA>>), User1 },
      { JoinSp(<<W_PASS, Pass2>>), JoinSp(<<W_NICK, NickB>>), User1,
        JoinSp(<<W_JOIN, RoomR>>) }>>

InitPw == Startup({Unreadable, Malformed}, {1, 2})

NextPw == Step(PwLines)

SpecPw == InitPw /\ [][NextPw]_vars

\* the lines each connection may send in the ordering scenarios
OrdLines ==
    <<{ JoinSp(<<W_NICK, NickA>>), User1, JoinSp(<<W_JOIN, RoomR>>),
        JoinSp(<<W_PRIVMSG, RoomR, Hi>>), JoinSp(<<W_PART, RoomR>>) },
      { JoinSp(<<W_NICK, NickB>>), User1, JoinSp(<<W_JOIN, RoomR>>) }>>

InitOrd == Startup({Plain}, {1, 2})

NextOrd == Step(OrdLines)

SpecOrd == InitOrd /\ [][NextOrd]_vars

\* nicknames of the greatest length allowed and of one character more
Nick24 == <<"Z">> \o [i \in 1..(NickMaxLen - 1) |-> "9"]
Nick25 == Nick24 \o <<"-">>

\* the lines each connection may send in the nickname scenarios
NickLines ==
    <<{ JoinSp(<<W_NICK, Star>>), JoinSp(<<W_NICK, NickA>>), JoinSp(<<W_NICK, Nick24>>),
        JoinSp(<<W_NICK, Nick25>>), JoinSp(<<W_NICK, NickA, NickB>>),
        JoinSp(<<W_NICK, <<":">> \o NickB>>), User1, JoinSp(<<W_JOIN, RoomR>>) },
      { JoinSp(<<W_NICK, ToUpper(NickA)>>), JoinSp(<<W_NICK, <<"a", "_">> >>), User1 }>>

InitNick == Startup({Plain}, {1, 2})

NextNick == Step(NickLines)

SpecNick == InitNick /\ [][NextNick]_vars

\* the lines each connection may send in the ISON scenarios
IsonLines ==
    <<{ JoinSp(<<W_NICK, NickA>>), User1, JoinSp(<<W_ISON, ToUpper(NickA)>>),
        JoinSp(<<W_ISON, NickA, ToLower(NickB)>>), JoinSp(<<W_JOIN, RoomR>>) },
      { JoinSp(<<W_NICK, NickB>>), User1 }>>

InitIson == Startup({Plain}, {1, 2})

NextIson == Step(IsonLines)

SpecIson == InitIson /\ [][NextIson]_vars

\* the lines each connection may send in the key scenarios
KeyLines ==
    <<{ JoinSp(<<W_NICK, NickA>>), User1, JoinSp(<<W_JOIN, RoomR>>),
        JoinSp(<<W_MODE, RoomR, PlusK, Key1>>), JoinSp(<<W_MODE, RoomR, MinusK>>) },
      { JoinSp(<<W_NICK, NickB>>), User1, JoinSp(<<W_JOIN, RoomR>>),
        JoinSp(<<W_JOIN, RoomR, Key1>>) }>>

InitKey == Startup({Plain}, {1, 2})

NextKey == Step(KeyLines)

SpecKey == InitKey /\ [][NextKey]_vars

Init == Startup({Plain, Stateful}, {1, 2})

Next == Step(RoomLines)

Spec == Init /\ [][Next]_vars

(***************************************************************************)
(* Properties.                                                             *)
(***************************************************************************)
\* the step just taken was round of HandlerJoin's loop for an existing room
JoinedExisting ==
    /\ last.actor = "arbiter"
    /\ last.ev = "join"
    /\ last.how \in {"denied", "admitted"}

\* the EventNew the arbiter sends for the client of the handler it is in
NewOf(c) == Event(c, "EventNew", Empty, "JOIN")

\* C2: a JOIN of an existing room whose key K is not empty, with another key
\* or none at the paired position, is answered 475 and nothing is sent on the
\* room's sink; with exactly K, exactly one EventNew is put on the way to the
\* room, and the actor handling an EventNew makes the client a member and
\* sends one JOIN line to all members, the existing ones included.
C2_KeyedJoin ==
    /\ (JoinedExisting /\ rm[last.room].key # Empty /\ last.key # rm[last.room].key) =>
          /\ last.how = "denied"
          /\ Len(sent) = 1
          /\ sent[1].to = {last.client}
          /\ sent[1].code = "475"
          /\ sent[1].params = <<cl[last.client].nickname, last.name>>
          /\ \A i \in 1..Len(arb.todo) :
                arb.todo[i].op = "send" => arb.todo[i].room # last.room
    /\ (JoinedExisting /\ rm[last.room].key # Empty /\ last.key = rm[last.room].key) =>
          /\ last.how = "admitted"
          /\ sent = <<>>
          /\ arb.todo[1] = SendItem(last.room, NewOf(last.client))
          /\ \A i \in 2..Len(arb.todo) :
                arb.todo[i].op = "send" => arb.todo[i].room # last.room
    /\ (last.actor = "room" /\ last.ev = "EventNew") =>
          /\ rm[last.room].members = last.was \cup {last.client}
          /\ sent[1].code = "JOIN"
          /\ sent[1].to = last.was \cup {last.client}
          /\ sent[1].prefix = Prefix(last.client, cl[last.client])
          /\ \A i \in 2..Len(sent) : sent[i].code # "JOIN"

\* a wrong key was refused while the room had a member
C2_Witness ==
    /\ JoinedExisting
    /\ last.how = "denied"
    /\ last.key = Key2
    /\ rm[last.room].key = Key1
    /\ rm[last.room].members # {}

\* the items of the arbiter's todo list that are sends on the sink of room r
SendsTo(r) == {i \in 1..Len(arb.todo) : arb.todo[i].op = "send" /\ arb.todo[i].room = r}

\* the EventDel of a disconnect
DelOf(c) == Event(c, "EventDel", Empty, "EventDel")

\* C3: once the arbiter has taken a client's EventDel the client is out of
\* the registry; the event is sent exactly once on the sink of every room of
\* the registry; a room that had the client as a member removes it and
\* writes exactly one PART, to the remaining members; a room that did not
\* writes nothing; and a registered room still listing the client has the
\* EventDel in front of it.
C3_Disconnect ==
    /\ (last.actor = "arbiter" /\ last.ev = "EventDel") =>
          /\ last.client \notin clients
          /\ Len(arb.todo) = Cardinality(rooms)
          /\ \A r \in rooms : Cardinality(SendsTo(r)) = 1
    /\ arb.ev = "EventDel" =>
          /\ arb.client \notin clients
          /\ \A i \in 1..Len(arb.todo) : arb.todo[i] = SendItem(arb.todo[i].room, DelOf(arb.client))
          /\ \A r \in DOMAIN rm : Cardinality(SendsTo(r)) <= 1
          /\ \A r \in DOMAIN rm : SendsTo(r) # {} => r \in rooms /\ rm[r].inbox # DelOf(arb.client)
    /\ (last.actor = "room" /\ last.ev = "EventDel" /\ last.cause = "EventDel") =>
          IF last.client \in last.was
          THEN /\ rm[last.room].members = last.was \ {last.client}
               /\ sent = IF last.was \ {last.client} = {} THEN <<>>
                         ELSE <<Line(last.was \ {last.client},
                                     Prefix(last.client, cl[last.client]), "PART",
                                     <<rm[last.room].name>>)>>
          ELSE /\ rm[last.room].members = last.was
               /\ sent = <<>>
    /\ \A c \in DOMAIN conn : \A r \in rooms :
          (conn[c] = "gone" /\ c \in rm[r].members) =>
              \/ rm[r].inbox = DelOf(c)
              \/ arb.ev = "EventDel" /\ arb.client = c /\ SendsTo(r) # {}

\* the room of a disconnected client told its other member, the client
\* being in a second room as well
C3_Witness ==
    /\ last.actor = "room"
    /\ last.ev = "EventDel"
    /\ last.cause = "EventDel"
    /\ last.client \in last.was
    /\ last.was \ {last.client} # {}
    /\ Len(sent) = 1
    /\ \E r \in rooms : r # last.room

\* a room of this name was removed by a tick before
Recreated(r) ==
    \E q \in DOMAIN rm : q # r /\ rm[q].st \in {"closed", "done"} /\ rm[q].name = rm[r].name

\* the step just taken registered a room for a JOIN
JoinCreated == last.actor = "arbiter" /\ last.ev = "join" /\ last.how = "created"

\* C7 as amended: without a state directory a tick removes from the registry
\* exactly the rooms with no member and closes their sinks; a JOIN of a name
\* not in the registry makes a room with no topic, no member yet, and the key
\* the JOIN gave (none when it gave none); with a state directory a tick
\* leaves the registry as it is.
C7_EmptyRoomCollected ==
    /\ (last.actor = "arbiter" /\ last.ev = "EventTick" /\ ~cfg.statedir) =>
          \A r \in last.pre :
             IF rm[r].members = {}
             THEN r \notin rooms /\ rm[r].st = "closed"
             ELSE r \in rooms /\ rm[r].st = "run"
    /\ (last.actor = "arbiter" /\ last.ev = "EventTick" /\ cfg.statedir) =>
          /\ rooms = last.pre
          /\ \A r \in rooms : rm[r].st = "run"
    /\ JoinCreated =>
          /\ last.room \in rooms
          /\ rm[last.room].name = last.name
          /\ rm[last.room].topic = Empty
          /\ rm[last.room].members = {}
          /\ rm[last.room].key = last.key

\* a room was made again, with a key, after a tick had removed its namesake
C7_Witness ==
    /\ JoinCreated
    /\ Recreated(last.room)
    /\ last.key # Empty

\* C7 as stated: the room a JOIN makes after the tick removed its namesake
\* has an empty topic and an empty key.
C7_Original ==
    (JoinCreated /\ Recreated(last.room)) =>
        /\ rm[last.room].topic = Empty
        /\ rm[last.room].key = Empty

\* the arbiter or a room actor can take a step
Progress == ENABLED (ArbStep \/ \E r \in DOMAIN rm : RoomProcess(r) \/ RoomExit(r))

\* C4: once the arbiter has taken EventTerm the shutdown cannot get stuck:
\* until finished is closed the arbiter or a room actor can still take a
\* step; and a room actor that handled EventTerm has returned, with nothing
\* left in its sink.
C4_Original ==
    /\ arb.ev = "EventTerm" => (finished \/ Progress)
    /\ (last.actor = "room" /\ last.ev = "EventTerm") =>
          rm[last.room].st = "done" /\ rm[last.room].inbox = NoEvent

\* the step just taken handled a line of a connection
HandledMsg == last.actor = "arbiter" /\ last.ev = "EventMsg"

\* C1: a line of an unregistered client whose command, upper-cased, is not
\* PASS, NICK, USER or QUIT makes the arbiter write nothing to any
\* connection and send nothing to any room, with or without a passwords file.
C1_SilentDrop ==
    (HandledMsg /\ ~last.reg /\ last.cmd \notin {W_PASS, W_NICK, W_USER, W_QUIT}) =>
        /\ sent = <<>>
        /\ arb = ArbIdle
        /\ ~cl[last.client].registered
        /\ conn[last.client] = "open"

\* an unregistered client that has its nickname sent JOIN, a passwords file
\* being configured
C1_Witness ==
    /\ HandledMsg
    /\ ~last.reg
    /\ last.cmd = W_JOIN
    /\ cl[last.client].nickname # Star
    /\ cfg.passwords # Empty

\* the numerics of the lines the step wrote
Codes == [i \in 1..Len(sent) |-> sent[i].code]

\* the numerics of SendMotd: 422, or 375, 372s, 376
MotdCodes(codes) ==
    \/ codes = <<"422">>
    \/ /\ Len(codes) >= 2
       /\ codes[1] = "375"
       /\ codes[Len(codes)] = "376"
       /\ \A i \in 2..(Len(codes) - 1) : codes[i] = "372"

\* both the nickname and the username of the client are set
Identified(rec) == rec.nickname # Star /\ rec.username # Empty

\* the step just taken registered the client of the line
JustRegistered == HandledMsg /\ ~last.reg /\ cl[last.client].registered

C9_State ==
    cfg.passwords = Empty =>
        /\ \A c \in DOMAIN cl : cl[c].registered = Identified(cl[c])
        /\ JustRegistered =>
              /\ Len(sent) >= 6
              /\ SubSeq(Codes, 1, 5) = <<"001", "002", "003", "004", "251">>
              /\ MotdCodes(SubSeq(Codes, 6, Len(sent)))
              /\ \A i \in 1..Len(sent) : sent[i].to = {last.client}
        /\ ~JustRegistered =>
              \A i \in 1..Len(sent) : sent[i].code \notin {"001", "002", "003", "004"}

\* a registered connection stays registered
C9_Step == \A c \in DOMAIN cl : cl[c].registered => cl'[c].registered

\* C9: without a passwords file a client is registered exactly when both a
\* nickname other than "*" and a non-empty username are set, whichever came
\* first; the step that registers it writes 001, 002, 003, 004, 251, then
\* the MOTD numerics or 422, to that client; no other step writes a welcome
\* numeric, and a registered connection is never registered again.
C9_Welcome == []C9_State /\ [][C9_Step]_vars

\* USER came first, NICK completed the registration, and the MOTD was sent
C9_Witness ==
    /\ JustRegistered
    /\ cfg.passwords = Empty
    /\ last.cmd = W_NICK
    /\ Codes[6] = "375"

\* the PASS the passwords file wants from the client: its entry's password
PassOk(rec) ==
    /\ rec.password # Nil
    /\ rec.nickname = NickA => rec.password = Pass1

\* C10: with a passwords file no client is registered unless it sent PASS
\* and, the file having an entry for its nickname, the PASS is the entry's
\* password; the line after which nickname and username are both set without
\* that is answered 462 alone, and the client is Closed and not registered.
C10_PasswordGate ==
    cfg.passwords # Empty =>
        /\ \A c \in DOMAIN cl : cl[c].registered => PassOk(cl[c])
        /\ (HandledMsg /\ ~last.reg /\ Identified(cl[last.client])
              /\ ~PassOk(cl[last.client])) =>
              /\ Codes = <<"462">>
              /\ sent[1].to = {last.client}
              /\ conn[last.client] = "closed"
              /\ ~cl[last.client].registered

\* a client was refused for a PASS that is not its entry's password
C10_Witness ==
    /\ cfg.passwords # Empty
    /\ HandledMsg
    /\ Identified(cl[last.client])
    /\ cl[last.client].password = Pass2
    /\ cl[last.client].nickname = NickA
    /\ conn[last.client] = "closed"
    /\ Codes = <<"462">>

\* the step just taken handled a tick
HandledTick == last.actor = "arbiter" /\ last.ev = "EventTick"

\* the lines of the step that went to client c
LinesTo(c) == {i \in 1..Len(sent) : c \in sent[i].to}

\* the step wrote exactly one line to c, a PING
PingedOnce(c) == Cardinality(LinesTo(c)) = 1 /\ \A i \in LinesTo(c) : sent[i].code = "PING"

\* C6: a tick Closes, without PING, every client of the registry that was
\* silent for more than PingTimeout; of the others, those not written to for
\* more than PingThreshold get one PING and sendTimestamp = now when
\* registered and are Closed when not; the rest are left as they were. No
\* unregistered client is ever sent PING, and the tick leaves the registry
\* as it was.
C6_Tick ==
    /\ \A i \in 1..Len(sent) :
          sent[i].code = "PING" => \A c \in sent[i].to : cl[c].registered
    /\ HandledTick =>
          /\ clients = last.registry
          /\ \A c \in clients :
                LET was == last.was[c] IN
                IF now - was.recvTimestamp > PingTimeout
                THEN c \in last.closed /\ conn[c] = "closed" /\ LinesTo(c) = {} /\ cl[c] = was
                ELSE IF now - was.sendTimestamp > PingThreshold
                     THEN IF was.registered
                          THEN /\ PingedOnce(c)
                               /\ cl[c] = [was EXCEPT !.sendTimestamp = now]
                               /\ c \notin last.closed
                          ELSE c \in last.closed /\ conn[c] = "closed" /\ LinesTo(c) = {}
                                 /\ cl[c] = was
                     ELSE c \notin last.closed /\ LinesTo(c) = {} /\ cl[c] = was

\* one tick pinged a registered client and Closed an unregistered one that
\* was heard of less than PingTimeout ago
C6_Witness ==
    /\ HandledTick
    /\ \E c \in clients : PingedOnce(c)
    /\ \E c \in last.closed :
          ~cl[c].registered /\ now - cl[c].recvTimestamp <= PingTimeout

\* C5, as the specification states it: when the arbiter is done with a line
\* of a client, the client's recvTimestamp is the time of the processing.
C5_Original == (HandledMsg /\ arb = ArbIdle) => cl[last.client].recvTimestamp = now

\* the registered client c sent the line PRIVMSG <target> <text> and x is the
\* registered client of that nickname, in whatever letter case it is written
PrivateMessage(c, x) ==
    /\ HandledMsg
    /\ last.reg
    /\ last.client = c
    /\ last.cmd = W_PRIVMSG
    /\ x \in clients \ {c}
    /\ cl[x].registered
    /\ LET cols == SplitN(last.text, " ", 2) IN
       /\ Len(cols) = 2
       /\ LET m == SplitN(cols[2], " ", 2) IN
          Len(m) = 2 /\ ToLower(m[1]) = ToLower(cl[x].nickname)

\* the text of the private message of the step
PrivateText == SplitN(SplitN(last.text, " ", 2)[2], " ", 2)[2]

\* C8: a PRIVMSG of a registered client to the nickname of another, in any
\* letter case, writes one line prefixed nick!user@host of the sender to the
\* addressee and to nobody else; the sender gets nothing, or one 301 with
\* the away text when the addressee is away; nothing goes to a room.
C8_PrivateMessage ==
    \A c, x \in DOMAIN cl :
        PrivateMessage(c, x) =>
            /\ sent = <<Line({x}, Prefix(c, cl[c]), "PRIVMSG", <<cl[x].nickname, PrivateText>>)>>
                      \o (IF cl[x].away = Nil THEN <<>>
                          ELSE <<Line({c}, Hostname, "301",
                                      <<cl[c].nickname, cl[x].nickname, cl[x].away>>)>>)
            /\ arb = ArbIdle

\* the addressee, written in upper case, is away, a room exists and the
\* sender got the 301
C8_Witness ==
    /\ PrivateMessage(2, 1)
    /\ SplitN(last.text, " ", 3)[2] = ToUpper(NickA)
    /\ cl[1].away # Nil
    /\ rooms # {}
    /\ Len(sent) = 2

\* C11, as the specification states it: no line of a client ends the
\* arbiter; after every EventMsg it goes on to consume later events.
C11_Original == arb.ev # "dead"

\* the step just taken was the tick counting the members of room r (line 474)
CountedMembers(r) == HandledTick /\ ~cfg.statedir /\ r \in last.pre

\* the step just taken was the key check of a JOIN of room r (line 423)
CheckedKey(r) ==
    /\ last.actor = "arbiter"
    /\ last.ev = "join"
    /\ last.how \in {"denied", "admitted"}
    /\ last.room = r

\* the actor of room r has taken from its sink, and not yet finished
\* handling, an event of one of these types
Handling(r, types) == rm[r].inbox.eventType \in types

\* C12, as the specification states it: the arbiter does not count the
\* members of a room while the room's actor handles an event that changes
\* them, nor read its key while the actor handles a MODE.
C12_Original ==
    \A r \in DOMAIN rm :
        /\ CountedMembers(r) => ~Handling(r, {"EventNew", "EventDel"})
        /\ CheckedKey(r) => ~Handling(r, {"EventMode"})

\* C13, as the specification states it: a room of the registry has its
\* actor (running, or returned on EventTerm), and a room that is not in the
\* registry has no actor with an event to handle or with members.
C13_Original ==
    \A r \in DOMAIN rm :
        /\ r \in rooms => rm[r].st \in {"run", "done"}
        /\ r \notin rooms => rm[r].inbox = NoEvent /\ rm[r].members = {}

\* the events on their way to room r: the one its actor is handling, then
\* the sends the arbiter has still to make in the handler it is in
OnTheWay(r) ==
    (IF rm[r].inbox = NoEvent THEN <<>> ELSE <<rm[r].inbox>>) \o SendsFor(arb.todo, r)

\* the step just taken was the actor of a room handling this type of event
RoomHandled(type) == last.actor = "room" /\ last.ev = type

\* C14: the events on their way to a room are those the arbiter undertook
\* to send it, in the order in which it handled the commands, so the actor
\* handles them in that order; a PRIVMSG of a member is written once to
\* every other member the room has when the actor handles it, the sender's
\* own later PART or disconnect not yet being applied.
C14_Order ==
    /\ \A r \in DOMAIN rm : forwarded[r] = OnTheWay(r)
    /\ (RoomHandled("EventMsg") /\ last.client \in last.was) =>
          /\ rm[last.room].members = last.was
          /\ \A d \in last.was \ {last.client} : Cardinality(LinesTo(d)) = 1
          /\ LinesTo(last.client) = {}

\* the actor broadcast the PRIVMSG of client 1 to client 2 when the arbiter
\* had already undertaken to send the room the EventDel of client 1's PART
C14_Witness ==
    /\ RoomHandled("EventMsg")
    /\ last.client = 1
    /\ last.was = {1, 2}
    /\ forwarded[last.room] # <<>>
    /\ Head(forwarded[last.room]).eventType = "EventDel"
    /\ Head(forwarded[last.room]).client = 1

\* the string matches ^[a-zA-Z0-9-]{1,24}$
MatchesNick(n) ==
    /\ Len(n) \in 1..24
    /\ \A i \in 1..Len(n) :
          n[i] \in Range(LowerAlpha) \cup Range(UpperAlpha) \cup Digits \cup {"-"}

\* the argument of the NICK line of the latest step, and the nickname asked
\* for: the argument without one leading colon, lower-cased
NickArg == SplitN(last.text, " ", 2)[2]
NickAsked == ToLower(TrimPrefixColon(NickArg))

\* the step just taken handled NICK with an argument from an unregistered client
HandledNick ==
    /\ HandledMsg
    /\ ~last.reg
    /\ last.cmd = W_NICK
    /\ Len(SplitN(last.text, " ", 2)) = 2
    /\ NickArg # Empty

\* C15, as the specification states it: every NICK argument that does not
\* match the expression is answered 432.
C15_Original == (HandledNick /\ ~MatchesNick(NickAsked)) => Codes = <<"432">>

C15_Step ==
    HandledNick' =>
        LET c == last'.client IN
        IF ~MatchesNick(NickAsked')
        THEN /\ cl'[c].nickname = cl[c].nickname
             /\ Codes' = IF NickAsked' = Star /\ \E x \in clients : cl[x].nickname = Star
                         THEN <<"433">> ELSE <<"432">>
        ELSE (Len(NickAsked') \in {1, 24} /\ \A x \in clients : cl[x].nickname # NickAsked') =>
                /\ cl'[c].nickname = NickAsked'
                /\ \A i \in 1..Len(sent') : sent'[i].code \notin {"431", "432", "433"}

\* C15: a NICK of an unregistered client whose argument, without a leading
\* colon, does not match ^[a-zA-Z0-9-]{1,24}$ leaves the nickname as it was
\* and is answered 432, except that the argument "*" is answered 433 while
\* a client of the registry, the sender included, has the nickname "*"; a
\* matching argument of length 1 or 24 that is no nickname of the registry
\* becomes the nickname, lower-cased.
C15_Nick == [][C15_Step]_vars

\* a nickname of 24 characters was accepted, lower-cased
C15_Witness ==
    /\ HandledNick
    /\ NickArg = Nick24
    /\ cl[last.client].nickname = ToLower(Nick24)
    /\ cl[last.client].nickname # Nick24

\* the nickname, in whatever letter case, is that of a registered client of
\* the registry
IsOn(n) == \E x \in clients : cl[x].registered /\ cl[x].nickname = ToLower(n)

\* C16, as the specification states it: the 303 answering ISON lists those
\* of the nicknames asked for that, letter case aside, are nicknames of
\* registered clients of the registry.
C16_Original ==
    (HandledMsg /\ last.reg /\ last.cmd = W_ISON /\ Len(SplitN(last.text, " ", 2)) = 2) =>
        /\ Codes = <<"303">>
        /\ sent[1].params[2] =
              JoinSp(SelectSeq(Split(SplitN(last.text, " ", 2)[2], " "), IsOn))

\* no nickname but "*" is that of two clients of the registry
C17_Unique ==
    \A x, y \in clients : (x # y /\ cl[x].nickname = cl[y].nickname) => cl[x].nickname = Star

\* a registered client keeps its nickname and stays registered, and its
\* NICK is answered 421 alone
C17_Step ==
    /\ \A c \in DOMAIN cl :
          cl[c].registered => cl'[c].registered /\ cl'[c].nickname = cl[c].nickname
    /\ (HandledMsg' /\ last'.reg /\ last'.cmd = W_NICK) => Codes' = <<"421">>

\* C17: no two clients of the registry ever have the same nickname other
\* than "*"; once a client is registered its nickname and its registered
\* flag never change, a NICK it sends being answered 421.
C17_Nicknames == []C17_Unique /\ [][C17_Step]_vars

\* the registered client b asked for the nickname of client 2, got 421 and
\* is still b
C17_Witness ==
    /\ HandledMsg
    /\ last.reg
    /\ last.client = 1
    /\ last.cmd = W_NICK
    /\ NickArg = NickA
    /\ Codes = <<"421">>
    /\ cl[1].nickname = ToLower(NickB)
    /\ 2 \in clients
    /\ cl[2].nickname = NickA

\* C18, as the specification states it: a tick removes no room whose actor
\* has an EventNew still to apply, and every room whose actor adds a client
\* to its members is in the registry.
C18_Original ==
    /\ HandledTick => \A r \in last.pre \ rooms : rm[r].inbox.eventType # "EventNew"
    /\ RoomHandled("EventNew") => last.room \in rooms

\* the key a room has once its actor has handled these events
RECURSIVE KeyAfter(_, _)
KeyAfter(key, evs) ==
    IF evs = <<>> THEN key
    ELSE LET w == Split(Head(evs).text, " ") IN
         IF Head(evs).eventType = "EventMode" /\ w[1] = PlusK /\ Len(w) > 1
         THEN KeyAfter(w[2], Tail(evs))
         ELSE IF Head(evs).eventType = "EventMode" /\ w[1] = MinusK
         THEN KeyAfter(Empty, Tail(evs))
         ELSE KeyAfter(key, Tail(evs))

\* the key of room r as the MODEs forwarded so far leave it
KeyForwarded(r) == KeyAfter(rm[r].key, forwarded[r])

\* C19, as the specification states it: a JOIN of an existing room is let in
\* or refused according to the key that the MODE +k and -k events already
\* forwarded to the room leave it with.
C19_Original ==
    \A r \in DOMAIN rm :
        CheckedKey(r) =>
            (last.how = "denied") = (KeyForwarded(r) # Empty /\ KeyForwarded(r) # last.key)

\* C20, as the specification states it: the line of a PRIVMSG or NOTICE of
\* a registered client is written to registered clients only.
C20_Original ==
    (HandledMsg /\ last.reg /\ last.cmd \in {W_PRIVMSG, W_NOTICE}) =>
        \A i \in 1..Len(sent) :
            sent[i].code \in {"PRIVMSG", "NOTICE"} =>
                \A d \in sent[i].to : cl[d].registered

====
